---- MODULE Spec2Model ----
(***************************************************************************)
(* Model of tools/pathtools.cpp (aardvark): the URI / path conversion      *)
(* functions IsFileUri, IsHttpUri, FileUriToPath, PathToFileUri and the     *)
(* subpath sanitizer UriToSubpath.                                          *)
(*                                                                          *)
(* A std::string is a sequence of one-character strings.  The functions    *)
(* are pure; the state machine is a caller that holds one input string,    *)
(* calls one of the functions on it and records the value returned.  A     *)
(* second call may take the string returned by the first one, which is     *)
(* how FileUriToPath(PathToFileUri(p)) is formed.                           *)
(*                                                                          *)
(* std::filesystem::path is modelled with the decomposition of the MSVC    *)
(* standard library (the file is built against <windows.h>): a path keeps  *)
(* its text as written, root_name is a drive "X:" or a "//host" style      *)
(* prefix, root_directory the run of separators after it, relative_path    *)
(* the rest.                                                                *)
(***************************************************************************)
EXTENDS Integers, Sequences, FiniteSets, TLC

VARIABLES
    input,      \* the string the caller holds
    WINDOWS,    \* whether the build defines _WINDOWS (UNC policy)
    fn,         \* the function called last, "none" before any call
    arg,        \* the string passed to that call
    maxLength,  \* the maxLength passed to UriToSubpath (0 for the others)
    retStr,     \* the string / path returned (<<>> for the predicates)
    retBool,    \* the boolean returned (FALSE for the string functions)
    threw,      \* the call left by an exception
    chained     \* arg was the value returned by the previous call

vars == <<input, WINDOWS, fn, arg, maxLength, retStr, retBool, threw, chained>>

-----------------------------------------------------------------------------
(* Bounds of the model *)

\* longest tail appended to a scheme / root prefix when inputs are drawn
MaxTail == 2

\* width in bits of size_t in the model (64 in the build)
SizeBits == 6

RECURSIVE Pow2(_)
Pow2(n) == IF n = 0 THEN 1 ELSE 2 * Pow2(n - 1)

\* size_t values are 0 .. SIZE_MAX
SizeMod == Pow2(SizeBits)
SIZE_MAX == SizeMod - 1

\* std::string::max_size(): no string is longer than half the address space
max_size == Pow2(SizeBits - 1) - 1

-----------------------------------------------------------------------------
(* Characters and C strings *)

\* the terminator c_str() puts after the last character
NUL == "NUL"

Upper == << "A", "B", "C", "D", "E", "F", "G", "H", "I", "J", "K", "L", "M",
            "N", "O", "P", "Q", "R", "S", "T", "U", "V", "W", "X", "Y", "Z" >>
Lower == << "a", "b", "c", "d", "e", "f", "g", "h", "i", "j", "k", "l", "m",
            "n", "o", "p", "q", "r", "s", "t", "u", "v", "w", "x", "y", "z" >>

\* s.c_str()[i] and s[i], i counted from 0; s[s.size()] is the terminator
CharAt(s, i) == IF i < Len(s) THEN s[i + 1] ELSE NUL

RECURSIVE StrncmpFrom(_, _, _, _)
StrncmpFrom(a, b, n, i) ==
    IF i = n THEN 0
    ELSE IF CharAt(a, i) # CharAt(b, i) THEN 1
    ELSE IF CharAt(a, i) = NUL THEN 0
    ELSE StrncmpFrom(a, b, n, i + 1)

\* std::strncmp(a, b, n): 0 iff the two C strings agree on their first n
\* characters or up to a common terminator; the sign of a difference is
\* never used by the callers, a difference is reported as 1
strncmp(a, b, n) == StrncmpFrom(a, b, n, 0)

\* std::string::substr(pos): the characters from pos on, out_of_range
\* when pos > size()
substr(s, pos) ==
    IF pos > Len(s)
    THEN [threw |-> TRUE, str |-> << >>]
    ELSE [threw |-> FALSE, str |-> SubSeq(s, pos + 1, Len(s))]

\* std::replace(begin, end, from, to)
replace(s, from, to) == [i \in 1..Len(s) |-> IF s[i] = from THEN to ELSE s[i]]

-----------------------------------------------------------------------------
(* tools/stringtools *)

tolower(c) ==
    IF \E i \in 1..Len(Upper) : Upper[i] = c
    THEN Lower[CHOOSE i \in 1..Len(Upper) : Upper[i] = c]
    ELSE c

\* tools::stringToLower: lower-cases the full input
stringToLower(s) == [i \in 1..Len(s) |-> tolower(s[i])]

\* tools::stringIsPrefix(prefix, s): s starts with prefix, case-sensitive
stringIsPrefix(sPrefix, s) ==
    /\ Len(sPrefix) <= Len(s)
    /\ SubSeq(s, 1, Len(sPrefix)) = sPrefix

-----------------------------------------------------------------------------
(* IsFileUri, IsHttpUri *)

sFile == << "f", "i", "l", "e", ":", "/", "/" >>
sFILE == << "F", "I", "L", "E", ":", "/", "/" >>
sHttp == << "h", "t", "t", "p", ":", "/", "/" >>
sHttps == << "h", "t", "t", "p", "s", ":", "/", "/" >>
sIpfs == << "i", "p", "f", "s", ":", "/", "/" >>

\* IsFileUri matching the scheme in any letter case
IsFileUriAnyCase(sUri) ==
    0 = strncmp(stringToLower(sUri), sFile, 7)

IsFileUri(sUri) ==
    \/ 0 = strncmp(sUri, sFile, 7)
    \/ 0 = strncmp(sUri, sFILE, 7)

\* IsHttpUri without the lower-casing of its input
IsHttpUriCaseSensitive(sUri) ==
    \/ 0 = strncmp(sUri, sHttp, 7)
    \/ 0 = strncmp(sUri, sHttps, 8)

IsHttpUri(sUri) ==
    LET lowerUri == stringToLower(sUri)
    IN  \/ 0 = strncmp(lowerUri, sHttp, 7)
        \/ 0 = strncmp(lowerUri, sHttps, 8)

-----------------------------------------------------------------------------
(* FileUriToPath *)

\* FileUriToPath keeping the third slash of file:///
FileUriToPathOffByOne(sUri) ==
    IF Len(sUri) < 8 \/ ~IsFileUri(sUri)
    THEN [threw |-> FALSE, str |-> << >>]
    ELSE IF CharAt(sUri, 7) = "/"
         THEN substr(sUri, 7)
         ELSE IF WINDOWS
              THEN substr(sUri, 5)
              ELSE substr(sUri, 6)

\* FileUriToPath without the check of the size
FileUriToPathNoSizeCheck(sUri) ==
    IF ~IsFileUri(sUri)
    THEN [threw |-> FALSE, str |-> << >>]
    ELSE IF CharAt(sUri, 7) = "/"
         THEN substr(sUri, 8)
         ELSE IF WINDOWS
              THEN substr(sUri, 5)
              ELSE substr(sUri, 6)

FileUriToPath(sUri) ==
    IF Len(sUri) < 8 \/ ~IsFileUri(sUri)
    THEN [threw |-> FALSE, str |-> << >>]
    ELSE IF CharAt(sUri, 7) = "/"
         THEN substr(sUri, 8)
         ELSE IF WINDOWS
              THEN substr(sUri, 5)
              ELSE substr(sUri, 6)

-----------------------------------------------------------------------------
(* std::filesystem::path, as PathToFileUri uses it *)

\* '/' and '\' are both directory separators
IsSlash(c) == c \in {"/", "\\"}

IsAlpha(c) == \E i \in 1..Len(Upper) : c = Upper[i] \/ c = Lower[i]

\* "X:" at the front of the path
HasDriveLetterPrefix(p) == Len(p) >= 2 /\ IsAlpha(p[1]) /\ p[2] = ":"

\* position of the first separator of p at or after index i (0-based),
\* Len(p) when there is none
RECURSIVE FindSlash(_, _)
FindSlash(p, i) ==
    IF i >= Len(p) THEN Len(p)
    ELSE IF IsSlash(p[i + 1]) THEN i
    ELSE FindSlash(p, i + 1)

\* position of the first non-separator of p at or after index i (0-based)
RECURSIVE FindNotSlash(_, _)
FindNotSlash(p, i) ==
    IF i >= Len(p) THEN Len(p)
    ELSE IF ~IsSlash(p[i + 1]) THEN i
    ELSE FindNotSlash(p, i + 1)

\* number of characters of the root-name of p
RootNameEnd(p) ==
    IF Len(p) < 2 THEN 0
    ELSE IF HasDriveLetterPrefix(p) THEN 2
    ELSE IF ~IsSlash(p[1]) THEN 0
    ELSE IF /\ Len(p) >= 4
            /\ IsSlash(p[4])
            /\ (Len(p) = 4 \/ ~IsSlash(p[5]))
            /\ \/ (IsSlash(p[2]) /\ p[3] \in {"?", "."})
               \/ (p[2] = "?" /\ p[3] = "?")
         THEN 3
    ELSE IF Len(p) >= 3 /\ IsSlash(p[2]) /\ ~IsSlash(p[3])
         THEN FindSlash(p, 3)
    ELSE 0

has_root_name(p) == RootNameEnd(p) > 0

root_name(p) == SubSeq(p, 1, RootNameEnd(p))

root_directory(p) == SubSeq(p, RootNameEnd(p) + 1, FindNotSlash(p, RootNameEnd(p)))

relative_path(p) == SubSeq(p, FindNotSlash(p, RootNameEnd(p)) + 1, Len(p))

\* path::generic_string(): the text with '/' as the only separator
generic_string(p) == replace(p, "\\", "/")

-----------------------------------------------------------------------------
(* PathToFileUri *)

\* PathToFileUri without the final std::replace
PathToFileUriNoReplace(path) ==
    LET sRootName == root_name(path)
        sPrefix ==
            IF has_root_name(path)
            THEN IF \/ (Len(sRootName) >= 2 /\ strncmp(sRootName, << "/", "/" >>, 2) = 0)
                    \/ strncmp(sRootName, << "\\", "\\" >>, 2) = 0
                 THEN << "f", "i", "l", "e", ":" >> \o generic_string(root_name(path))
                 ELSE << "f", "i", "l", "e", ":", "/", "/", "/" >>
                          \o generic_string(root_name(path))
            ELSE sFile
    IN  sPrefix \o root_directory(path) \o relative_path(path)

PathToFileUri(path) ==
    LET sRootName == root_name(path)
        sPrefix ==
            IF has_root_name(path)
            THEN IF \/ (Len(sRootName) >= 2 /\ strncmp(sRootName, << "/", "/" >>, 2) = 0)
                    \/ strncmp(sRootName, << "\\", "\\" >>, 2) = 0
                 THEN << "f", "i", "l", "e", ":" >> \o generic_string(root_name(path))
                 ELSE << "f", "i", "l", "e", ":", "/", "/", "/" >>
                          \o generic_string(root_name(path))
            ELSE sFile
        sUri == sPrefix \o root_directory(path) \o relative_path(path)
    IN  replace(sUri, "\\", "/")

-----------------------------------------------------------------------------
(* UriToSubpath *)

\* result.assign( uri.begin() + n, uri.end() )
assign(uri, n) == SubSeq(uri, n + 1, Len(uri))

\* the scheme stripping of UriToSubpath: the first prefix that matches
StripScheme(uri) ==
    IF stringIsPrefix(sHttp, uri) THEN assign(uri, Len(sHttp))
    ELSE IF stringIsPrefix(sHttps, uri) THEN assign(uri, Len(sHttps))
    ELSE IF stringIsPrefix(sIpfs, uri) THEN assign(uri, Len(sIpfs))
    ELSE uri

\* the switch without its case '&'
SanitizeCharNoAmpersand(c) ==
    IF c \in {"/", "\\", "#", "?", ":", "."} THEN "_" ELSE c

\* the switch over one character
SanitizeChar(c) ==
    IF c \in {"/", "\\", "#", "?", ":", ".", "&"} THEN "_" ELSE c

\* the loop over result
Sanitize(s) == [i \in 1..Len(s) |-> SanitizeChar(s[i])]

\* the count with the subtraction stopping at zero instead of wrapping
EraseCountSaturating(maxLen, size) == IF maxLen >= size THEN maxLen - size ELSE 0

\* maxLength - result.size() in size_t
EraseCount(maxLen, size) == (maxLen - size) % SizeMod

\* std::string::erase(pos, n): removes min(n, size() - pos) characters
\* starting at pos (pos <= size())
erase(s, pos, n) ==
    LET k == IF n < Len(s) - pos THEN n ELSE Len(s) - pos
    IN  SubSeq(s, 1, pos) \o SubSeq(s, pos + k + 1, Len(s))

\* the truncation at the end of UriToSubpath
Truncate(result, maxLen) ==
    IF Len(result) > maxLen
    THEN erase(result, 0, EraseCount(maxLen, Len(result)))
    ELSE result

UriToSubpath(uri, maxLen) == Truncate(Sanitize(StripScheme(uri)), maxLen)

-----------------------------------------------------------------------------
(* The strings the caller may hold *)

\* characters of the tails
TailChars == {"a", "/", "\\", ":"}

RECURSIVE Tails(_)
Tails(n) ==
    IF n = 0 THEN {<< >>}
    ELSE Tails(n - 1) \cup {Append(t, c) : t \in Tails(n - 1), c \in TailChars}

\* every prefix of s, s included
PrefixesOf(s) == {SubSeq(s, 1, k) : k \in 0..Len(s)}

Seeds ==
    PrefixesOf(sFile) \cup PrefixesOf(sHttps)
    \cup { sFILE, sHttp, sIpfs,
           << "F", "i", "l", "e", ":", "/", "/" >>,
           << "H", "T", "T", "P", ":", "/", "/" >>,
           << "h", "T", "t", "P", "s", ":", "/", "/" >>,
           sHttp \o sIpfs,
           sHttps \o sHttp,
           << "c", ":" >>,
           << "/", "/", "h" >>,
           << "\\", "\\", "h" >>,
           << "/", "/", "?" >>,
           << "/", "?", "?" >>,
           << "x", ".", "y", "?", "z", "#", "w", "&", "v" >>,
           << "0", "1", "2", "3", "4", "5", "6", "7", "8", "9",
              "0", "1", "2", "3", "4", "5", "6", "7", "8", "9" >> }

Inputs == {s \in {p \o t : p \in Seeds, t \in Tails(MaxTail)} : Len(s) <= max_size}

-----------------------------------------------------------------------------
(* The caller: one call on the input, or one call on the value returned   *)
(* by the first                                                            *)

Init ==
    /\ input \in Inputs
    /\ WINDOWS \in BOOLEAN
    /\ fn = "none"
    /\ arg = << >>
    /\ maxLength = 0
    /\ retStr = << >>
    /\ retBool = FALSE
    /\ threw = FALSE
    /\ chained = FALSE

CallIsFileUri ==
    /\ fn = "none"
    /\ fn' = "IsFileUri"
    /\ arg' = input
    /\ retBool' = IsFileUri(input)
    /\ retStr' = << >>
    /\ maxLength' = 0
    /\ threw' = FALSE
    /\ chained' = FALSE
    /\ UNCHANGED <<input, WINDOWS>>

CallIsHttpUri ==
    /\ fn = "none"
    /\ fn' = "IsHttpUri"
    /\ arg' = input
    /\ retBool' = IsHttpUri(input)
    /\ retStr' = << >>
    /\ maxLength' = 0
    /\ threw' = FALSE
    /\ chained' = FALSE
    /\ UNCHANGED <<input, WINDOWS>>

CallFileUriToPath ==
    /\ fn = "none"
    /\ fn' = "FileUriToPath"
    /\ arg' = input
    /\ retStr' = FileUriToPath(input).str
    /\ threw' = FileUriToPath(input).threw
    /\ retBool' = FALSE
    /\ maxLength' = 0
    /\ chained' = FALSE
    /\ UNCHANGED <<input, WINDOWS>>

CallPathToFileUri ==
    /\ fn = "none"
    /\ fn' = "PathToFileUri"
    /\ arg' = input
    /\ retStr' = PathToFileUri(input)
    /\ threw' = FALSE
    /\ retBool' = FALSE
    /\ maxLength' = 0
    /\ chained' = FALSE
    /\ UNCHANGED <<input, WINDOWS>>

\* FileUriToPath( PathToFileUri( input ) )
CallFileUriToPathOfResult ==
    /\ fn = "PathToFileUri"
    /\ ~chained
    /\ fn' = "FileUriToPath"
    /\ arg' = retStr
    /\ retStr' = FileUriToPath(retStr).str
    /\ threw' = FileUriToPath(retStr).threw
    /\ retBool' = FALSE
    /\ maxLength' = 0
    /\ chained' = TRUE
    /\ UNCHANGED <<input, WINDOWS>>

\* PathToFileUri( FileUriToPath( input ) )
CallPathToFileUriOfResult ==
    /\ fn = "FileUriToPath"
    /\ ~chained
    /\ ~threw
    /\ fn' = "PathToFileUri"
    /\ arg' = retStr
    /\ retStr' = PathToFileUri(retStr)
    /\ threw' = FALSE
    /\ retBool' = FALSE
    /\ maxLength' = 0
    /\ chained' = TRUE
    /\ UNCHANGED <<input, WINDOWS>>

CallUriToSubpath ==
    \E m \in 0..SIZE_MAX :
        /\ fn = "none"
        /\ fn' = "UriToSubpath"
        /\ arg' = input
        /\ maxLength' = m
        /\ retStr' = UriToSubpath(input, m)
        /\ threw' = FALSE
        /\ retBool' = FALSE
        /\ chained' = FALSE
        /\ UNCHANGED <<input, WINDOWS>>

Next ==
    \/ CallIsFileUri
    \/ CallIsHttpUri
    \/ CallFileUriToPath
    \/ CallPathToFileUri
    \/ CallFileUriToPathOfResult
    \/ CallPathToFileUriOfResult
    \/ CallUriToSubpath

Spec == Init /\ [][Next]_vars

-----------------------------------------------------------------------------
(* Properties *)

\* the characters UriToSubpath replaces
SpecialChars == {"/", "\\", "#", "?", ":", ".", "&"}

\* C1: UriToSubpath with maxLength >= 1 returns the trailing maxLength
\* characters of the sanitized string when that string is longer than
\* maxLength (characters are removed from the front only), and the whole
\* sanitized string otherwise.
C1_KeepsTrailingMaxLength ==
    (fn = "UriToSubpath" /\ maxLength >= 1) =>
        LET sanitized == Sanitize(StripScheme(arg))
            n == Len(sanitized)
        IN  retStr = IF n > maxLength
                     THEN SubSeq(sanitized, n - maxLength + 1, n)
                     ELSE sanitized

\* C2: UriToSubpath with maxLength = 0 does not truncate: the result is the
\* complete sanitized string, as long as the scheme-stripped input.
C2_ZeroDisablesTruncation ==
    (fn = "UriToSubpath" /\ maxLength = 0) =>
        /\ retStr = Sanitize(StripScheme(arg))
        /\ Len(retStr) = Len(StripScheme(arg))

\* C3: for every path p without a UNC authority (drive-letter path, rooted
\* path without root-name, relative path), FileUriToPath(PathToFileUri(p))
\* is p with every backslash replaced by a forward slash.
C3_RoundTrip ==
    ( /\ fn = "FileUriToPath"
      /\ chained
      /\ ~(has_root_name(input) /\ IsSlash(input[1])) ) =>
        /\ ~threw
        /\ retStr = replace(input, "\\", "/")

\* C4: PathToFileUri(path) is prefix + root-directory + relative-path with
\* every backslash replaced by '/', the prefix being "file:" + root-name
\* when the root-name starts with "//" or two backslashes, "file:///" +
\* root-name for any other root-name, and "file://" without a root-name;
\* "c:/a" gives "file:///c:/a" and "//h/a" gives "file://h/a".
C4_PathToFileUriShape ==
    fn = "PathToFileUri" =>
        LET rn == root_name(arg)
            prefix ==
                IF ~has_root_name(arg)
                THEN << "f", "i", "l", "e", ":", "/", "/" >>
                ELSE IF SubSeq(rn, 1, 2) \in {<< "/", "/" >>, << "\\", "\\" >>}
                     THEN << "f", "i", "l", "e", ":" >> \o rn
                     ELSE << "f", "i", "l", "e", ":", "/", "/", "/" >> \o rn
        IN  /\ retStr = replace(prefix \o root_directory(arg) \o relative_path(arg),
                                "\\", "/")
            /\ arg = << "c", ":", "/", "a" >> =>
                   retStr = << "f", "i", "l", "e", ":", "/", "/", "/", "c", ":", "/", "a" >>
            /\ arg = << "/", "/", "h", "/", "a" >> =>
                   retStr = << "f", "i", "l", "e", ":", "/", "/", "h", "/", "a" >>

\* a UNC path written with backslashes has been converted
C4_Witness ==
    /\ fn = "PathToFileUri"
    /\ arg = << "\\", "\\", "h", "\\", "a" >>
    /\ retStr = << "f", "i", "l", "e", ":", "/", "/", "h", "/", "a" >>

\* C5: for a uri of at least 8 characters with IsFileUri true, FileUriToPath
\* returns the substring from index 8 when the character at index 7 is '/',
\* else the substring from index 5 under the UNC policy and from index 6
\* under the non-UNC policy.
C5_FileUriToPathSubstring ==
    (fn = "FileUriToPath" /\ Len(arg) >= 8 /\ IsFileUri(arg)) =>
        /\ ~threw
        /\ retStr = IF arg[8] = "/"
                    THEN SubSeq(arg, 9, Len(arg))
                    ELSE IF WINDOWS
                         THEN SubSeq(arg, 6, Len(arg))
                         ELSE SubSeq(arg, 7, Len(arg))

\* file://h/a has been converted under the non-UNC policy
C5_Witness ==
    /\ fn = "FileUriToPath"
    /\ ~WINDOWS
    /\ arg = << "f", "i", "l", "e", ":", "/", "/", "h", "/", "a" >>
    /\ retStr = << "/", "h", "/", "a" >>

\* C6: FileUriToPath returns the empty path, and raises nothing, for every
\* input shorter than 8 characters or for which IsFileUri is false.
C6_FileUriToPathFailsSoft ==
    (fn = "FileUriToPath" /\ (Len(arg) < 8 \/ ~IsFileUri(arg))) =>
        /\ retStr = << >>
        /\ ~threw

\* "file://" alone (7 characters, a file uri) has been converted
C6_Witness ==
    /\ fn = "FileUriToPath"
    /\ arg = << "f", "i", "l", "e", ":", "/", "/" >>
    /\ retStr = << >>
    /\ ~threw

\* C7: IsFileUri(uri) is true iff the first 7 characters of uri are exactly
\* "file://" or exactly "FILE://"; other casings and inputs shorter than 7
\* characters give false, without error.
C7_IsFileUriExact ==
    fn = "IsFileUri" =>
        /\ ~threw
        /\ retBool <=>
               /\ Len(arg) >= 7
               /\ \/ SubSeq(arg, 1, 7) = << "f", "i", "l", "e", ":", "/", "/" >>
                  \/ SubSeq(arg, 1, 7) = << "F", "I", "L", "E", ":", "/", "/" >>

\* "File://a" has been rejected
C7_Witness ==
    /\ fn = "IsFileUri"
    /\ arg = << "F", "i", "l", "e", ":", "/", "/", "a" >>
    /\ ~retBool

\* C8: for every u whose lower-cased form starts with "http://" or
\* "https://", IsHttpUri(u) is true and IsFileUri(u) is false; IsHttpUri(u)
\* is false for every other u.
C8_HttpAnyCase ==
    LET lowered == stringToLower(arg)
        http == \/ (Len(arg) >= 7 /\ SubSeq(lowered, 1, 7) = sHttp)
                \/ (Len(arg) >= 8 /\ SubSeq(lowered, 1, 8) = sHttps)
    IN  /\ fn = "IsHttpUri" => (retBool <=> http)
        /\ (fn = "IsFileUri" /\ http) => ~retBool

\* a mixed-case https uri has been accepted
C8_Witness ==
    /\ fn = "IsHttpUri"
    /\ arg = << "h", "T", "t", "P", "s", ":", "/", "/", "a" >>
    /\ retBool

\* C9: without truncation (maxLength at least the input length) UriToSubpath
\* returns the uri with exactly one leading scheme prefix removed, the first
\* matching among "http://", "https://", "ipfs://", in which every character
\* among / \ # ? : . & is replaced by '_' and every other character is kept
\* in place: same length as the stripped uri, none of the seven characters.
C9_StripOnceAndSanitize ==
    (fn = "UriToSubpath" /\ maxLength >= Len(arg)) =>
        LET n == Len(arg)
            stripped ==
                IF n >= 7 /\ SubSeq(arg, 1, 7) = << "h", "t", "t", "p", ":", "/", "/" >>
                THEN SubSeq(arg, 8, n)
                ELSE IF n >= 8 /\ SubSeq(arg, 1, 8) = << "h", "t", "t", "p", "s", ":", "/", "/" >>
                THEN SubSeq(arg, 9, n)
                ELSE IF n >= 7 /\ SubSeq(arg, 1, 7) = << "i", "p", "f", "s", ":", "/", "/" >>
                THEN SubSeq(arg, 8, n)
                ELSE arg
        IN  /\ Len(retStr) = Len(stripped)
            /\ \A i \in 1..Len(stripped) :
                   /\ stripped[i] \in SpecialChars => retStr[i] = "_"
                   /\ stripped[i] \notin SpecialChars => retStr[i] = stripped[i]
            /\ \A i \in 1..Len(retStr) : retStr[i] \notin SpecialChars

\* "http://ipfs://a" has lost its first scheme only
C9_Witness ==
    /\ fn = "UriToSubpath"
    /\ maxLength >= Len(arg)
    /\ arg = << "h", "t", "t", "p", ":", "/", "/", "i", "p", "f", "s", ":", "/", "/", "a" >>
    /\ retStr = << "i", "p", "f", "s", "_", "_", "_", "a" >>

\* C10: for every uri and every maxLength of size_t, 0 included, the string
\* UriToSubpath returns is at most maxLength long.
C10_LengthAtMostMaxLength ==
    fn = "UriToSubpath" => Len(retStr) <= maxLength

\* a sanitized string longer than maxLength has been truncated
C10_Witness ==
    /\ fn = "UriToSubpath"
    /\ Len(Sanitize(StripScheme(arg))) > maxLength
    /\ maxLength >= 1
    /\ Len(retStr) <= maxLength

====
